---- MODULE Spec2Model ----
(***************************************************************************)
(* TextLines (src/lib.rs): a per-line table built in one pass over a UTF-8 *)
(* text, and the position conversions that read it.                        *)
(*                                                                         *)
(* A text is a sequence of characters, each character its Unicode code     *)
(* point.  Byte offsets, line indexes, column indexes and character        *)
(* indexes are zero-based as in the source; TLA+ sequences are one-based,  *)
(* so line L of the table is lines[L + 1] and character number k of the    *)
(* text is text[k + 1].                                                    *)
(***************************************************************************)
EXTENDS Integers, Sequences, FiniteSets

VARIABLES text, ctor, indent_width, lines, call, result

vars == <<text, ctor, indent_width, lines, call, result>>

----------------------------------------------------------------------------
(* Bounds of the model.                                                    *)

\* Longest text, in characters.
MaxLen == 3
\* How far past the valid range an offset, line, column or character index goes.
MaxOver == 2
\* Largest explicit indent width.
MaxIndent == 2
\* Bits of a usize: the machine word, scaled down so that its maximum is a
\* number TLC can hold and every text of the model still fits in it.
UsizeBits == 8

----------------------------------------------------------------------------
(* Characters.                                                             *)

BOM_CHAR == 65279
NEWLINE == 10
TAB == 9
SLASH_R == 13
DEFAULT_INDENT_WIDTH == 4

\* '\t', '\n', '\r', 'a', a two-byte character (U+03B2) and the three-byte BOM.
Alphabet == {TAB, NEWLINE, SLASH_R, 97, 946, BOM_CHAR}

\* The texts of exactly n characters.
RECURSIVE TextsOfLen(_)
TextsOfLen(n) ==
  IF n = 0 THEN {<<>>}
  ELSE {Append(t, c) : t \in TextsOfLen(n - 1), c \in Alphabet}

Texts == UNION {TextsOfLen(n) : n \in 0..MaxLen}

\* char::len_utf8
len_utf8(c) ==
  IF c < 128 THEN 1
  ELSE IF c < 2048 THEN 2
  ELSE IF c < 65536 THEN 3
  ELSE 4

\* The byte offset of text[i], as str::char_indices yields it; for
\* i = Len(t) + 1 the byte length of the text.
RECURSIVE ByteOffsetOf(_, _)
ByteOffsetOf(t, i) ==
  IF i <= 1 THEN 0 ELSE ByteOffsetOf(t, i - 1) + len_utf8(t[i - 1])

\* str::len
StrLen(t) == ByteOffsetOf(t, Len(t) + 1)

\* str::starts_with(char)
starts_with(t, c) == Len(t) > 0 /\ t[1] = c

----------------------------------------------------------------------------
(* Construction: TextLines::with_indent_width.                             *)

MultiByteCharInfo(byte_index, line_char_index, length) ==
  [byte_index |-> byte_index, line_char_index |-> line_char_index, length |-> length]

TextLine(start_index, end_index, multi_byte_chars, tab_chars) ==
  [start_index |-> start_index, end_index |-> end_index,
   multi_byte_chars |-> multi_byte_chars, tab_chars |-> tab_chars]

FirstLineStart_NoBomSkip(t) == 0

\* let mut last_line_start = if text.starts_with(BOM_CHAR) { .. } else { 0 }
FirstLineStart(t) ==
  IF starts_with(t, BOM_CHAR) THEN len_utf8(BOM_CHAR) ELSE 0

NewlineEndIndex_IgnoreSlashR(was_last_slash_r, byte_index) == byte_index

\* end_index of a line closed by the '\n' at byte_index
NewlineEndIndex(was_last_slash_r, byte_index) ==
  IF was_last_slash_r THEN byte_index - 1 ELSE byte_index

\* The locals of with_indent_width before the loop.
LoopInit(t) ==
  [last_line_start |-> FirstLineStart(t),
   multi_byte_chars |-> <<>>,
   tab_chars |-> <<>>,
   lines |-> <<>>,
   was_last_slash_r |-> FALSE,
   line_char_index |-> 0]

\* One iteration of the loop over text.char_indices().enumerate().
LoopBody(st, char_index, byte_index, c) ==
  IF byte_index = 0 /\ c = BOM_CHAR THEN st
  ELSE
    LET st1 ==
          IF c = NEWLINE THEN
            [st EXCEPT
               !.lines = Append(@, TextLine(st.last_line_start,
                                            NewlineEndIndex(st.was_last_slash_r, byte_index),
                                            st.multi_byte_chars, st.tab_chars)),
               !.multi_byte_chars = <<>>,
               !.tab_chars = <<>>,
               !.last_line_start = byte_index + 1,
               !.line_char_index = char_index + 1]
          ELSE IF c = TAB THEN
            [st EXCEPT !.tab_chars = Append(@, byte_index)]
          ELSE IF len_utf8(c) > 1 THEN
            [st EXCEPT !.multi_byte_chars =
               Append(@, MultiByteCharInfo(byte_index,
                                           char_index - st.line_char_index,
                                           len_utf8(c)))]
          ELSE st
    IN [st1 EXCEPT !.was_last_slash_r = (c = SLASH_R)]

\* The locals after the first n iterations.
RECURSIVE LoopState(_, _)
LoopState(t, n) ==
  IF n = 0 THEN LoopInit(t)
  ELSE LoopBody(LoopState(t, n - 1), n - 1, ByteOffsetOf(t, n), t[n])

\* The lines field of TextLines::with_indent_width(text, _).
with_indent_width(t) ==
  LET st == LoopState(t, Len(t))
  IN Append(st.lines,
            TextLine(st.last_line_start, StrLen(t), st.multi_byte_chars, st.tab_chars))

----------------------------------------------------------------------------
(* Results of a call: a record of kind "ok" holding what the call returns   *)
(* (a usize as value, a pair or a struct as its fields), or of kind        *)
(* "panic" holding what the panic message names.                           *)

Ok(v) == [kind |-> "ok", value |-> v]

OkRange(s, e) == [kind |-> "ok", start |-> s, end |-> e]

Panic(what, value, bound) ==
  [kind |-> "panic", what |-> what, value |-> value, bound |-> bound]

IsPanic(r) == r.kind = "panic"

----------------------------------------------------------------------------
(* Position Resolver.                                                      *)

lines_count(ls) == Len(ls)

text_length(ls) == ls[Len(ls)].end_index

ByteIndexInvalid_GreaterOrEqual(ls, byte_index) == byte_index >= text_length(ls)

\* The condition of assert_valid_byte_index.
ByteIndexInvalid(ls, byte_index) == byte_index > text_length(ls)

\* The condition of assert_valid_line_index.
LineIndexInvalid(ls, line_index) == line_index >= Len(ls)

assert_valid_byte_index(ls, byte_index) ==
  IF ByteIndexInvalid(ls, byte_index)
  THEN Panic("byte index greater than text length", byte_index, text_length(ls))
  ELSE Ok(0)

assert_valid_line_index(ls, line_index) ==
  IF LineIndexInvalid(ls, line_index)
  THEN Panic("line index greater or equal to number of lines", line_index, Len(ls))
  ELSE Ok(0)

\* slice::binary_search_by_key over start_index, on the zero-based range
\* [lo, hi): found at index i, or not found with insertion index i.
RECURSIVE binary_search_by_key(_, _, _, _)
binary_search_by_key(ls, key, lo, hi) ==
  IF lo >= hi THEN [found |-> FALSE, index |-> lo]
  ELSE
    LET mid == lo + ((hi - lo) \div 2)
        k == ls[mid + 1].start_index
    IN IF k = key THEN [found |-> TRUE, index |-> mid]
       ELSE IF k < key THEN binary_search_by_key(ls, key, mid + 1, hi)
       ELSE binary_search_by_key(ls, key, lo, mid)

SearchResultLine_NoStepBack(r) ==
  IF r.found THEN r.index
  ELSE IF r.index = 0 THEN 0 ELSE r.index

\* The match on the search result in line_index.
SearchResultLine(r) ==
  IF r.found THEN r.index
  ELSE IF r.index = 0 THEN 0 ELSE r.index - 1

line_index(ls, byte_index) ==
  IF IsPanic(assert_valid_byte_index(ls, byte_index))
  THEN assert_valid_byte_index(ls, byte_index)
  ELSE Ok(SearchResultLine(binary_search_by_key(ls, byte_index, 0, Len(ls))))

line_start(ls, li) ==
  IF IsPanic(assert_valid_line_index(ls, li))
  THEN assert_valid_line_index(ls, li)
  ELSE Ok(ls[li + 1].start_index)

line_end(ls, li) ==
  IF IsPanic(assert_valid_line_index(ls, li))
  THEN assert_valid_line_index(ls, li)
  ELSE Ok(ls[li + 1].end_index)

line_range(ls, li) ==
  IF IsPanic(assert_valid_line_index(ls, li))
  THEN assert_valid_line_index(ls, li)
  ELSE OkRange(ls[li + 1].start_index, ls[li + 1].end_index)

----------------------------------------------------------------------------
(* Column Mapper.                                                          *)

LineAndColumnIndex(li, ci) == [line_index |-> li, column_index |-> ci]

OkLineAndColumnIndex(li, ci) ==
  [kind |-> "ok", line_index |-> li, column_index |-> ci]

OkLineAndColumnDisplay(ln, cn) ==
  [kind |-> "ok", line_number |-> ln, column_number |-> cn]

\* The loop of byte_index from multi_byte_chars[i] on: the bytes added for the
\* leading multi-byte characters whose line_char_index is below column_index.
RECURSIVE MultiByteExtra(_, _, _)
MultiByteExtra(mbs, i, column_index) ==
  IF i > Len(mbs) THEN 0
  ELSE IF mbs[i].line_char_index < column_index
       THEN (mbs[i].length - 1) + MultiByteExtra(mbs, i + 1, column_index)
       ELSE 0

\* The fallback to the end index of the line at the end of byte_index.
ClampToLineEnd(line, b) == IF b > line.end_index THEN line.end_index ELSE b

\* usize::MAX
UsizeMax == 2^UsizeBits - 1

\* a + b on usize.  A sum past usize::MAX panics in a build with overflow
\* checks (the debug profile) and wraps in a build without (the release
\* profile).
UsizeAdd(a, b, overflow_checks) ==
  IF a + b <= UsizeMax THEN Ok(a + b)
  ELSE IF overflow_checks THEN Panic("attempt to add with overflow", a, b)
  ELSE Ok((a + b) % (UsizeMax + 1))

\* byte_index in a build with or without overflow checks.  The loop adds
\* length - 1 >= 0 at each step, so one of its additions overflows exactly
\* when the sum with all of them does, and wrapping each is wrapping the sum.
byte_index(ls, lc, overflow_checks) ==
  IF lc.line_index >= Len(ls)
  THEN Panic("index out of bounds", lc.line_index, Len(ls))
  ELSE
    LET line == ls[lc.line_index + 1]
        first == UsizeAdd(line.start_index, lc.column_index, overflow_checks)
        after_loop ==
          UsizeAdd(first.value,
                   MultiByteExtra(line.multi_byte_chars, 1, lc.column_index),
                   overflow_checks)
    IN IF IsPanic(first) THEN first
       ELSE IF IsPanic(after_loop) THEN after_loop
       ELSE Ok(ClampToLineEnd(line, after_loop.value))

\* The cursor of byte_index_from_char_index.
Cursor(last_char_index, last_byte_index) ==
  [done |-> FALSE, last_char_index |-> last_char_index, last_byte_index |-> last_byte_index]

Found(b) == [done |-> TRUE, value |-> b]

\* The inner loop of byte_index_from_char_index from multi_byte_chars[j] on.
RECURSIVE WalkMultiByteChars(_, _, _, _)
WalkMultiByteChars(mbs, j, cur, char_index) ==
  IF j > Len(mbs) THEN cur
  ELSE
    LET char_length == mbs[j].byte_index - cur.last_byte_index
    IN IF cur.last_char_index + char_length >= char_index
       THEN Found(cur.last_byte_index + (char_index - cur.last_char_index))
       ELSE WalkMultiByteChars(mbs, j + 1,
              Cursor(cur.last_char_index + char_length + 1,
                     mbs[j].byte_index + mbs[j].length),
              char_index)

\* The check of the end of the line in byte_index_from_char_index.
CheckLineEnd(ls, i, cur, char_index) ==
  LET the_line_end == IF i < Len(ls) THEN ls[i + 1].start_index ELSE ls[i].end_index
      char_length == the_line_end - cur.last_byte_index
  IN IF cur.last_char_index + char_length >= char_index
     THEN Found(cur.last_byte_index + (char_index - cur.last_char_index))
     ELSE Cursor(cur.last_char_index + char_length, the_line_end)

\* The outer loop of byte_index_from_char_index from lines[i] on.
RECURSIVE WalkLines(_, _, _, _)
WalkLines(ls, i, cur, char_index) ==
  IF i > Len(ls) THEN cur.last_byte_index
  ELSE
    LET c1 == WalkMultiByteChars(ls[i].multi_byte_chars, 1, cur, char_index)
    IN IF c1.done THEN c1.value
       ELSE LET c2 == CheckLineEnd(ls, i, c1, char_index)
            IN IF c2.done THEN c2.value
               ELSE WalkLines(ls, i + 1, c2, char_index)

byte_index_from_char_index(ls, char_index) ==
  Ok(WalkLines(ls, 1, Cursor(0, 0), char_index))

MultiByteOvercount_WholeChar(info, b) == info.length - 1

\* The closure mapped over the multi-byte characters in line_and_column_index.
MultiByteOvercount(info, b) ==
  IF info.byte_index + info.length > b
  THEN b - info.byte_index
  ELSE info.length - 1

\* take_while(byte_index < b).map(..).sum() from multi_byte_chars[i] on.
RECURSIVE multi_byte_char_offset(_, _, _)
multi_byte_char_offset(mbs, i, b) ==
  IF i > Len(mbs) THEN 0
  ELSE IF mbs[i].byte_index < b
       THEN MultiByteOvercount(mbs[i], b) + multi_byte_char_offset(mbs, i + 1, b)
       ELSE 0

RelativeByteIndex(line, b) ==
  IF b < line.start_index THEN 0 ELSE b - line.start_index

line_and_column_index(ls, b) ==
  IF IsPanic(line_index(ls, b)) THEN line_index(ls, b)
  ELSE
    LET li == line_index(ls, b).value
        line == ls[li + 1]
    IN OkLineAndColumnIndex(li,
         RelativeByteIndex(line, b)
           - multi_byte_char_offset(line.multi_byte_chars, 1, b))

\* take_while(tab_index < b).count() from tab_chars[i] on.
RECURSIVE tab_char_count(_, _, _)
tab_char_count(tabs, i, b) ==
  IF i > Len(tabs) THEN 0
  ELSE IF tabs[i] < b THEN 1 + tab_char_count(tabs, i + 1, b)
       ELSE 0

ColumnNumber_TabsNotExpanded(column_index, tab_count, width) == column_index + 1

ColumnNumber(column_index, tab_count, width) ==
  column_index - tab_count + tab_count * width + 1

line_and_column_display_with_indent_width(ls, b, width) ==
  IF IsPanic(line_and_column_index(ls, b)) THEN line_and_column_index(ls, b)
  ELSE
    LET lc == line_and_column_index(ls, b)
        line == ls[lc.line_index + 1]
    IN OkLineAndColumnDisplay(lc.line_index + 1,
         ColumnNumber(lc.column_index,
                      tab_char_count(line.tab_chars, 1, b), width))

line_and_column_display(ls, configured_width, b) ==
  line_and_column_display_with_indent_width(ls, b, configured_width)

----------------------------------------------------------------------------
(* The program: a TextLines is constructed from a text, then queried.      *)
(* Every query takes &self and leaves the table as it is, so the queries   *)
(* on one table do not affect one another: a behaviour is a construction   *)
(* followed by one query and its result.                                   *)

Call(op, args) == [op |-> op, args |-> args]

\* Inputs of the queries: a little past the valid range.
ByteOffsets == 0..(text_length(lines) + MaxOver)
LineIndexes == 0..(Len(lines) - 1 + MaxOver)
ColumnIndexes ==
  (0..(Len(text) + MaxOver)) \cup ((UsizeMax - MaxOver)..UsizeMax)
CharIndexes == 0..(Len(text) + MaxOver)
IndentWidths == 0..MaxIndent

\* TextLines::new(text)
New(t) ==
  /\ text = t
  /\ ctor = "new"
  /\ indent_width = DEFAULT_INDENT_WIDTH
  /\ lines = with_indent_width(t)

\* TextLines::with_indent_width(text, w)
WithIndentWidth(t, w) ==
  /\ text = t
  /\ ctor = "with_indent_width"
  /\ indent_width = w
  /\ lines = with_indent_width(t)

Init ==
  /\ \E t \in Texts : New(t) \/ (\E w \in IndentWidths : WithIndentWidth(t, w))
  /\ call = Call("constructed", <<>>)
  /\ result = [kind |-> "ok"]

Returns(op, args, r) ==
  /\ call.op = "constructed"
  /\ call' = Call(op, args)
  /\ result' = r
  /\ UNCHANGED <<text, ctor, indent_width, lines>>

LinesCount ==
  \E n \in {lines_count(lines)} : Returns("lines_count", <<>>, Ok(n))

TextLength ==
  \E n \in {text_length(lines)} : Returns("text_length", <<>>, Ok(n))

LineIndex == \E b \in ByteOffsets : Returns("line_index", <<b>>, line_index(lines, b))

LineStart == \E li \in LineIndexes : Returns("line_start", <<li>>, line_start(lines, li))

LineEnd == \E li \in LineIndexes : Returns("line_end", <<li>>, line_end(lines, li))

LineRange == \E li \in LineIndexes : Returns("line_range", <<li>>, line_range(lines, li))

ByteIndex ==
  \E li \in LineIndexes, ci \in ColumnIndexes, overflow_checks \in BOOLEAN :
    Returns("byte_index", <<li, ci>>,
            byte_index(lines, LineAndColumnIndex(li, ci), overflow_checks))

ByteIndexFromCharIndex ==
  \E k \in CharIndexes :
    Returns("byte_index_from_char_index", <<k>>, byte_index_from_char_index(lines, k))

LineAndColumnIndexCall ==
  \E b \in ByteOffsets :
    Returns("line_and_column_index", <<b>>, line_and_column_index(lines, b))

LineAndColumnDisplayCall ==
  \E b \in ByteOffsets :
    Returns("line_and_column_display", <<b>>,
            line_and_column_display(lines, indent_width, b))

LineAndColumnDisplayWithIndentWidth ==
  \E b \in ByteOffsets, w \in IndentWidths :
    Returns("line_and_column_display_with_indent_width", <<b, w>>,
            line_and_column_display_with_indent_width(lines, b, w))

Next ==
  \/ LinesCount
  \/ TextLength
  \/ LineIndex
  \/ LineStart
  \/ LineEnd
  \/ LineRange
  \/ ByteIndex
  \/ ByteIndexFromCharIndex
  \/ LineAndColumnIndexCall
  \/ LineAndColumnDisplayCall
  \/ LineAndColumnDisplayWithIndentWidth

Spec == Init /\ [][Next]_vars

----------------------------------------------------------------------------
(* What the text itself says, read off the characters and not the table.   *)

CharPositions == 1..Len(text)

CharStart(i) == ByteOffsetOf(text, i)

CharEnd(i) == ByteOffsetOf(text, i + 1)

TotalBytes == StrLen(text)

TotalChars == Len(text)

HasBom == starts_with(text, BOM_CHAR)

\* Offsets at which a character starts, and the end of the text.
CharBoundaries == {ByteOffsetOf(text, i) : i \in 1..(Len(text) + 1)}

NewlinePositions == {i \in CharPositions : text[i] = NEWLINE}

\* The '\n' characters that directly follow a '\r'.
CrLfPositions == {i \in NewlinePositions : i > 1 /\ text[i - 1] = SLASH_R}

\* The position of the '\n' that ends line L (L below the last line).
TerminatorOf(L) ==
  CHOOSE i \in NewlinePositions : Cardinality({j \in NewlinePositions : j < i}) = L

\* The characters lying entirely inside the byte range [from, to).
CharsInside(from, to) ==
  {i \in CharPositions : CharStart(i) >= from /\ CharEnd(i) <= to}

Called(op) == call.op = op

Arg(n) == call.args[n]

ValidOffset(b) == b <= text_length(lines)

----------------------------------------------------------------------------
(* C1 *)

\* C1 (round trip), on the offsets where the tests agree with it: for every
\* character boundary b at or after the start of line 0 that is not the '\n'
\* of a "\r\n" terminator, byte_index(line_and_column_index(b)) = b.
C1_RoundTripContent ==
  Called("byte_index") =>
    \A b \in CharBoundaries :
      ( /\ b >= lines[1].start_index
        /\ b \notin {CharStart(i) : i \in CrLfPositions}
        /\ line_and_column_index(lines, b) = OkLineAndColumnIndex(Arg(1), Arg(2)) )
      => result = Ok(b)

\* C1 (round trip) as stated: for every character boundary b <= text_length(),
\* the BOM offsets and both offsets of a "\r\n" included,
\* byte_index(line_and_column_index(b)) = b.
C1_RoundTrip ==
  Called("byte_index") =>
    \A b \in CharBoundaries :
      line_and_column_index(lines, b) = OkLineAndColumnIndex(Arg(1), Arg(2))
      => result = Ok(b)

----------------------------------------------------------------------------
(* C2 *)

\* C2: for b <= text_length(), line_and_column_index(b) returns a value, its
\* line_index is line_index(b), and its column_index is the number of
\* characters lying entirely inside [start_offset of that line, b).
C2_ColumnCountsCharacters ==
  (Called("line_and_column_index") /\ ValidOffset(Arg(1))) =>
    /\ result.kind = "ok"
    /\ Ok(result.line_index) = line_index(lines, Arg(1))
    /\ result.column_index =
         Cardinality(CharsInside(lines[result.line_index + 1].start_index, Arg(1)))

\* An offset strictly inside a multi-byte character that follows another
\* character of its line has been resolved.
C2_Witness ==
  /\ Called("line_and_column_index")
  /\ result.kind = "ok"
  /\ result.column_index > 0
  /\ \E i \in CharPositions : CharStart(i) < Arg(1) /\ Arg(1) < CharEnd(i)

----------------------------------------------------------------------------
(* C3 *)

\* The byte offset of the c-th character counted from the byte offset `from`.
OffsetOfCharFrom(from, c) ==
  LET first == CHOOSE i \in 1..(Len(text) + 1) : ByteOffsetOf(text, i) = from
  IN ByteOffsetOf(text, first + c)

\* C3: for a valid line L and any column c, byte_index({L, c}) is the byte
\* offset of the c-th character counted from the line's start_offset when c
\* is at most the number of characters of the line's content, and the line's
\* end_offset when c is larger.  Stated for the columns whose sum with the
\* byte length of the text fits a usize; the columns past that are C11's.
C3_ByteIndexOfColumn ==
  (Called("byte_index") /\ Arg(1) < Len(lines) /\ Arg(2) + TotalBytes <= UsizeMax) =>
    LET line == lines[Arg(1) + 1]
        n == Cardinality(CharsInside(line.start_index, line.end_index))
    IN result = Ok(IF Arg(2) <= n
                   THEN OffsetOfCharFrom(line.start_index, Arg(2))
                   ELSE line.end_index)

----------------------------------------------------------------------------
(* C4 *)

\* C4: byte_index_from_char_index(k) for k greater than the number of
\* characters of the text returns text_length().
C4_CharIndexClamped ==
  (Called("byte_index_from_char_index") /\ Arg(1) > TotalChars) =>
    result = Ok(TotalBytes)

----------------------------------------------------------------------------
(* C5 *)

\* The greatest line whose line_start is at most b, or 0 when there is none.
GreatestLineStartingAtOrBefore(b) ==
  LET at_or_before == {i \in 0..(Len(lines) - 1) : line_start(lines, i).value <= b}
  IN IF at_or_before = {} THEN 0
     ELSE CHOOSE i \in at_or_before : \A j \in at_or_before : j <= i

\* C5: for b <= text_length(), line_index(b) is the greatest line i with
\* line_start(i) <= b, or 0 when b is before line 0's start; it is
\* non-decreasing in b; and an offset at the '\r' or the '\n' of a "\r\n"
\* resolves to the line that terminator ends.
C5_LineIndexGreatestStart ==
  (Called("line_index") /\ ValidOffset(Arg(1))) =>
    /\ result = Ok(GreatestLineStartingAtOrBefore(Arg(1)))
    /\ \A b \in 0..Arg(1) : line_index(lines, b).value <= result.value
    /\ \A i \in CrLfPositions :
         Arg(1) \in {CharStart(i) - 1, CharStart(i)} =>
           result.value = Cardinality({j \in NewlinePositions : j < i})

\* The '\n' of a "\r\n" that ends a line after line 0 has been resolved.
C5_Witness ==
  /\ Called("line_index")
  /\ result.kind = "ok"
  /\ result.value >= 1
  /\ \E i \in CrLfPositions : Arg(1) = CharStart(i)

----------------------------------------------------------------------------
(* C6 *)

\* line_index(b) + 1, and 1 + (w for each tab, 1 for each other character)
\* over the characters of that line lying entirely before b.
DisplayOf(b, w) ==
  LET li == line_index(lines, b).value
      before == CharsInside(lines[li + 1].start_index, b)
      tabs == {i \in before : text[i] = TAB}
  IN OkLineAndColumnDisplay(li + 1,
       1 + w * Cardinality(tabs) + Cardinality(before \ tabs))

\* C6: for b <= text_length(), line_and_column_display_with_indent_width(b, w)
\* is line_index(b) + 1 and the tab-expanded column; line_and_column_display(b)
\* is the same with the indent width fixed at construction, 4 for
\* TextLines::new.
C6_DisplayColumn ==
  /\ (Called("line_and_column_display_with_indent_width") /\ ValidOffset(Arg(1))) =>
       result = DisplayOf(Arg(1), Arg(2))
  /\ (Called("line_and_column_display") /\ ValidOffset(Arg(1))) =>
       /\ result = DisplayOf(Arg(1), indent_width)
       /\ ctor = "new" => result = DisplayOf(Arg(1), 4)

\* A table made by TextLines::new has displayed an offset with a tab and a
\* multi-byte character before it on its line.
C6_Witness ==
  /\ Called("line_and_column_display")
  /\ ctor = "new"
  /\ result.kind = "ok"
  /\ result.column_number = 6
  /\ \E i, j \in CharsInside(lines[result.line_number].start_index, Arg(1)) :
       text[i] = TAB /\ len_utf8(text[j]) > 1

----------------------------------------------------------------------------
(* C7 *)

ByteOffsetCalls == {"line_index", "line_and_column_index", "line_and_column_display"}

LineIndexCalls == {"line_start", "line_end", "line_range"}

\* C7: line_index, line_and_column_index and line_and_column_display with a
\* byte offset greater than text_length(), and line_start, line_end and
\* line_range with a line index >= lines_count(), panic with a message naming
\* the value and the bound and return nothing; at the byte offset
\* text_length() or below, and at the line index lines_count() - 1 or below,
\* they return.
C7_FatalPreconditions ==
  /\ call.op \in ByteOffsetCalls =>
       IF Arg(1) > TotalBytes
       THEN result = Panic("byte index greater than text length", Arg(1), TotalBytes)
       ELSE result.kind = "ok"
  /\ call.op \in LineIndexCalls =>
       IF Arg(1) >= 1 + Cardinality(NewlinePositions)
       THEN result = Panic("line index greater or equal to number of lines",
                           Arg(1), 1 + Cardinality(NewlinePositions))
       ELSE result.kind = "ok"

\* line_and_column_display has panicked on the first offset past a text of
\* more than one line.
C7_Witness ==
  /\ Called("line_and_column_display")
  /\ Len(lines) > 1
  /\ Arg(1) = TotalBytes + 1
  /\ IsPanic(result)

----------------------------------------------------------------------------
(* C8 *)

\* The table of the BOM followed by the text.
LinesWithBom == with_indent_width(<<BOM_CHAR>> \o text)

\* C8: for a text T that does not start with a BOM and B = BOM followed by T,
\* lines_count is the same, line_start and line_end of every line of B are
\* those of T plus 3, and line_and_column_index(b + 3) on B is
\* line_and_column_index(b) on T for b <= length of T; the BOM offsets 0, 1, 2
\* of a text that starts with a BOM map to line 0, column 0.
C8_BomNeutrality ==
  /\ (~HasBom /\ Called("lines_count")) =>
       Ok(lines_count(LinesWithBom)) = result
  /\ (~HasBom /\ Called("line_start") /\ Arg(1) < Len(lines)) =>
       line_start(LinesWithBom, Arg(1)) = Ok(result.value + 3)
  /\ (~HasBom /\ Called("line_end") /\ Arg(1) < Len(lines)) =>
       line_end(LinesWithBom, Arg(1)) = Ok(result.value + 3)
  /\ (~HasBom /\ Called("line_and_column_index") /\ Arg(1) <= TotalBytes) =>
       line_and_column_index(LinesWithBom, Arg(1) + 3) = result
  /\ (HasBom /\ Called("line_and_column_index") /\ Arg(1) < 3) =>
       result = OkLineAndColumnIndex(0, 0)

\* An offset after a multi-byte character on a later line of a text without
\* a BOM has been resolved.
C8_Witness ==
  /\ ~HasBom
  /\ Called("line_and_column_index")
  /\ result.kind = "ok"
  /\ result.line_index >= 1
  /\ result.column_index >= 1
  /\ \E i \in CharPositions : len_utf8(text[i]) > 1 /\ CharEnd(i) = Arg(1)

----------------------------------------------------------------------------
(* C9 *)

\* C9: lines_count() = 1 + the number of '\n'; line 0 starts at 0, or at 3
\* after a BOM; every line has start_offset <= end_offset; the next line
\* starts 1 past the end_offset of a line ended by '\n' alone and 2 past that
\* of a line ended by "\r\n", whose end_offset is the offset of the '\r'; the
\* last line's end_offset = text_length() = the byte length of the text.
C9_LineTable ==
  /\ Len(lines) = 1 + Cardinality(NewlinePositions)
  /\ Called("lines_count") => result = Ok(1 + Cardinality(NewlinePositions))
  /\ lines[1].start_index = (IF HasBom THEN 3 ELSE 0)
  /\ \A i \in 1..Len(lines) : lines[i].start_index <= lines[i].end_index
  /\ \A i \in 1..(Len(lines) - 1) :
       LET nl == TerminatorOf(i - 1)
       IN IF nl \in CrLfPositions
          THEN /\ lines[i].end_index = CharStart(nl - 1)
               /\ lines[i + 1].start_index = lines[i].end_index + 2
          ELSE /\ lines[i].end_index = CharStart(nl)
               /\ lines[i + 1].start_index = lines[i].end_index + 1
  /\ lines[Len(lines)].end_index = TotalBytes
  /\ Called("text_length") => result = Ok(TotalBytes)

\* text_length() has been read off the table of a text with a BOM and a
\* "\r\n" terminator.
C9_Witness ==
  /\ Called("text_length")
  /\ HasBom
  /\ CrLfPositions # {}
  /\ Len(lines) = 2

----------------------------------------------------------------------------
(* C10 *)

\* C10: for k at most the number of characters of the text,
\* byte_index_from_char_index(k) is the byte offset at which character k
\* starts (text_length() for k equal to the number of characters), every
\* character counted once, '\r' and '\n' included.
C10_ByteIndexOfChar ==
  (Called("byte_index_from_char_index") /\ Arg(1) <= TotalChars) =>
    result = Ok(ByteOffsetOf(text, Arg(1) + 1))

----------------------------------------------------------------------------
(* C11 *)

\* C11: for a valid line and every column_index of the usize range, those
\* for which start_offset + column_index exceeds usize::MAX included,
\* byte_index returns a value, the value is within [start_offset, end_offset]
\* of the line, and it is end_offset whenever column_index exceeds the
\* number of characters of the line.
C11_ByteIndexEveryColumn ==
  (Called("byte_index") /\ Arg(1) < Len(lines)) =>
    LET line == lines[Arg(1) + 1]
        n == Cardinality(CharsInside(line.start_index, line.end_index))
    IN /\ result.kind = "ok"
       /\ line.start_index <= result.value
       /\ result.value <= line.end_index
       /\ Arg(2) > n => result.value = line.end_index

====
